---------------------------- MODULE Spec2Model ----------------------------
(***************************************************************************)
(* Kenya Climate AI Analyzer (src/app.py): the data pipeline               *)
(*   fetch_nasa_data  ->  analyze_climate_data  ->  main script rendering  *)
(* and the st.cache_data(ttl=3600) cache in front of fetch_nasa_data.      *)
(*                                                                         *)
(* Conventions of the model                                                *)
(*  - API numbers are decimals with two fractional digits, held as the     *)
(*    integer number of hundredths; means and slopes are exact rationals   *)
(*    [num, den] (the float rounding of numpy is not modelled).            *)
(*  - A date-key is a sequence of one-character strings over the digits    *)
(*    and "x"; over that alphabet int() accepts exactly the non-empty      *)
(*    all-digit strings.  The valid years of the key pool lie in the       *)
(*    range pandas holds as datetime64[ns].                                *)
(*  - A Python value that may be None is a record with a field is_none.    *)
(***************************************************************************)
EXTENDS Integers, Sequences, FiniteSets, TLC

VARIABLES
    now,           \* wall clock, in seconds
    cache,         \* st.cache_data store of fetch_nasa_data, by argument tuple
    requests,      \* requests.get calls issued so far, by argument tuple
    pc,            \* position of the script run started by the button
    county1,       \* sidebar selection "Select First County"
    county2,       \* sidebar selection "Select Second County"
    data1,         \* main script: data1
    data2,         \* main script: data2
    analysis1,     \* main script: analysis1
    analysis2,     \* main script: analysis2
    screen,        \* st.error / st.warning elements shown by the current run
    report,        \* the two-county comparison output of the current run
    api_response,  \* SpecFetch: the response handed to one fetch_nasa_data call
    fetched,       \* SpecFetch: what that call returned
    df,            \* SpecAnalyze: the frame handed to analyze_climate_data
    analysis       \* SpecAnalyze: what analyze_climate_data returned

vars == <<now, cache, requests, pc, county1, county2, data1, data2, analysis1,
          analysis2, screen, report, api_response, fetched, df, analysis>>

appVars == <<now, cache, requests, pc, county1, county2, data1, data2,
             analysis1, analysis2, screen, report>>

-----------------------------------------------------------------------------
(* Bounds of the model *)

MaxKeys == 3          \* date-keys in one T2M mapping
MaxSamples == 3       \* rows of a frame handed to analyze_climate_data
MaxRequests == 4      \* network requests over one behaviour
MaxClock == 7300      \* the clock stops advancing here

(* Program constants *)

TTL == 3600           \* st.cache_data(ttl=3600)
RequestTimeout == 30  \* requests.get(..., timeout=30)
MINYEAR == 1          \* datetime.MINYEAR
MAXYEAR == 9999       \* datetime.MAXYEAR

-----------------------------------------------------------------------------
(* Python values *)

None == [is_none |-> TRUE]

DataFrame(rows) == [is_none |-> FALSE, rows |-> rows]

Rational(n, d) == [num |-> n, den |-> d]

Zero == Rational(0, 1)

\* a float literal with two fractional digits
Hundredths(n) == Rational(n, 100)

\* a < b for rationals with positive denominators
Less(a, b) == a.num * b.den < b.num * a.den

Times(k, a) == Rational(k * a.num, a.den)

RECURSIVE SeqSum(_)
SeqSum(s) == IF s = <<>> THEN 0 ELSE s[1] + SeqSum(Tail(s))

RECURSIVE SeqProduct(_)
SeqProduct(s) == IF s = <<>> THEN 1 ELSE s[1] * SeqProduct(Tail(s))

-----------------------------------------------------------------------------
(* The county table, two of its 47 rows; coordinates in 1/10000 degree *)

COUNTIES ==
    [c \in {"Nairobi", "Baringo"} |->
        IF c = "Nairobi" THEN <<-12864, 368172>> ELSE <<4667, 359667>>]

CountyNames == DOMAIN COUNTIES

\* the argument tuple (lat, lon, county_name) of the call made for a county
CallArgs(c) == <<COUNTIES[c][1], COUNTIES[c][2], c>>

CacheKeys == {CallArgs(c) : c \in CountyNames}

-----------------------------------------------------------------------------
(* int() and datetime() as fetch_nasa_data uses them *)

DigitChars == {"0", "1", "2", "3", "4", "5", "6", "7", "8", "9"}

DigitValue(ch) ==
    CASE ch = "0" -> 0 [] ch = "1" -> 1 [] ch = "2" -> 2 [] ch = "3" -> 3
      [] ch = "4" -> 4 [] ch = "5" -> 5 [] ch = "6" -> 6 [] ch = "7" -> 7
      [] ch = "8" -> 8 [] ch = "9" -> 9

RECURSIVE DigitsValue(_)
DigitsValue(s) ==
    IF s = <<>> THEN 0
    ELSE 10 * DigitsValue(SubSeq(s, 1, Len(s) - 1)) + DigitValue(s[Len(s)])

\* s[lo:hi] of Python, 0-based and end-exclusive, clipped to the string
Slice(s, lo, hi) ==
    SubSeq(s, lo + 1, IF hi < Len(s) THEN hi ELSE Len(s))

\* int(s): a value, or ValueError
int(s) ==
    IF s = <<>> \/ \E i \in 1..Len(s) : s[i] \notin DigitChars
    THEN [raises |-> TRUE, value |-> 0]
    ELSE [raises |-> FALSE, value |-> DigitsValue(s)]

\* datetime(year, month, 1): a date, or ValueError
datetime(year, month) ==
    IF year < MINYEAR \/ year > MAXYEAR \/ month < 1 \/ month > 12
    THEN [raises |-> TRUE, year |-> 0, month |-> 0]
    ELSE [raises |-> FALSE, year |-> year, month |-> month]

\* lines 115-117: the date of a date-key, or ValueError
ParseDateKey(date_str) ==
    LET y == int(Slice(date_str, 0, 4))
        m == int(Slice(date_str, 4, 6))
    IN  IF y.raises \/ m.raises
        THEN [raises |-> TRUE, year |-> 0, month |-> 0]
        ELSE datetime(y.value, m.value)

-----------------------------------------------------------------------------
(* fetch_nasa_data: the parse loop, lines 107-125 *)

EmptyLists ==
    [dates |-> <<>>, temperatures |-> <<>>, rainfall |-> <<>>,
     solar_radiation |-> <<>>]

\* one iteration of the loop body on lists L
LoopBody(L, date_str, temp, parameters) ==
    LET d == ParseDateKey(date_str)
    IN  IF d.raises THEN L                                  \* ValueError
        ELSE
          LET L1 == [L EXCEPT !.dates = Append(@, <<d.year, d.month>>),
                              !.temperatures = Append(@, temp)]
          IN  IF date_str \notin DOMAIN parameters.PRECTOTCORR
              THEN L1                                        \* KeyError
              ELSE
                LET L2 == [L1 EXCEPT !.rainfall =
                              Append(@, parameters.PRECTOTCORR[date_str])]
                IN  IF date_str \notin DOMAIN parameters.ALLSKY_SFC_SW_DWN
                    THEN L2                                  \* KeyError
                    ELSE [L2 EXCEPT !.solar_radiation =
                              Append(@, parameters.ALLSKY_SFC_SW_DWN[date_str])]

RECURSIVE ParseLoop(_, _, _)
ParseLoop(L, items, parameters) ==
    IF items = <<>> THEN L
    ELSE ParseLoop(LoopBody(L, items[1][1], items[1][2], parameters),
                   Tail(items), parameters)

\* lines 131-140: pd.DataFrame of the four lists; arrays of unequal length
\* raise ValueError
Row(L, i, county_name) ==
    [date |-> L.dates[i], temperature |-> L.temperatures[i],
     rainfall |-> L.rainfall[i], solar_radiation |-> L.solar_radiation[i],
     county |-> county_name, year |-> L.dates[i][1], month |-> L.dates[i][2]]

BuildFrame(L, county_name) ==
    IF Len(L.temperatures) # Len(L.dates)
         \/ Len(L.rainfall) # Len(L.dates)
         \/ Len(L.solar_radiation) # Len(L.dates)
    THEN [raises |-> TRUE, frame |-> None]
    ELSE [raises |-> FALSE,
          frame |-> DataFrame([i \in 1..Len(L.dates) |-> Row(L, i, county_name)])]

-----------------------------------------------------------------------------
(* fetch_nasa_data: the whole body, lines 82-149 *)

Message(level, text, county_name) ==
    [level |-> level, text |-> text, county |-> county_name]

Returns(value, messages) ==
    [kind |-> "return", exc |-> "", value |-> value, messages |-> messages]

Raises(exc) ==
    [kind |-> "raise", exc |-> exc, value |-> None, messages |-> <<>>]

\* the exception classes that derive from requests.exceptions.RequestException
RequestExceptions == {"Timeout", "ConnectionError", "HTTPError"}

\* lines 83-142: the try block
TryBlock(response, county_name) ==
    IF response.net = "timeout" THEN Raises("Timeout")
    ELSE IF response.net = "connection_error" THEN Raises("ConnectionError")
    ELSE IF response.net = "http_error" THEN Raises("HTTPError")
    ELSE
      LET data == response.body
      IN  IF ~data.has_properties \/ ~data.has_parameter
          THEN Returns(None,
                 <<Message("error", "No climate data available for", county_name)>>)
          ELSE IF ~data.has_T2M THEN Raises("KeyError")
          ELSE
            LET L == ParseLoop(EmptyLists, data.T2M, data)
            IN  IF L.dates = <<>>
                THEN Returns(None,
                       <<Message("warning", "No valid data found for", county_name)>>)
                ELSE
                  LET f == BuildFrame(L, county_name)
                  IN  IF f.raises THEN Raises("ValueError")
                      ELSE Returns(f.frame, <<>>)

\* the except clause of line 144 alone: other exceptions leave the function
ExceptRequestExceptionOnly(r, county_name) ==
    IF r.kind = "raise" /\ r.exc \in RequestExceptions
    THEN Returns(None,
           <<Message("error", "Network error fetching data for", county_name)>>)
    ELSE r

\* lines 144-149: the two except clauses
ExceptClauses(r, county_name) ==
    IF r.kind = "return" THEN r
    ELSE IF r.exc \in RequestExceptions
    THEN Returns(None,
           <<Message("error", "Network error fetching data for", county_name)>>)
    ELSE Returns(None,
           <<Message("error", "Unexpected error for", county_name)>>)

fetch_nasa_data(response, county_name) ==
    ExceptClauses(TryBlock(response, county_name), county_name)

-----------------------------------------------------------------------------
(* analyze_climate_data, lines 151-202 *)

Column(rows, name) == [i \in 1..Len(rows) |-> rows[i][name]]

\* Series.mean(): the sum over the count, values in hundredths
Mean(values) == Rational(SeqSum(values), 100 * Len(values))

\* the distinct years of the frame, ascending, as groupby("year") orders them
RECURSIVE SortedSeq(_)
SortedSeq(S) ==
    IF S = {} THEN <<>>
    ELSE LET m == CHOOSE x \in S : \A y \in S : x <= y
         IN  <<m>> \o SortedSeq(S \ {m})

RowsOfYear(rows, y) == SelectSeq(rows, LAMBDA r : r.year = y)

\* lines 164-167: one row per year with the year's sums and sample count
\* (the yearly mean of a column is its sum over 100 * count)
yearly_data(rows) ==
    LET years == SortedSeq({rows[i].year : i \in 1..Len(rows)})
    IN  [k \in 1..Len(years) |->
            LET g == RowsOfYear(rows, years[k])
            IN  [year |-> years[k],
                 count |-> Len(g),
                 temperature |-> SeqSum(Column(g, "temperature")),
                 rainfall |-> SeqSum(Column(g, "rainfall"))]]

\* np.polyfit(x, y, 1)[0]: the least-squares slope
\*   (n Sxy - Sx Sy) / (n Sxx - Sx Sx)
\* with y[k] = sum[k] / (100 count[k]) brought to the common denominator
\* 100 * D, D the product of the counts
polyfit_slope(yearly, name) ==
    LET n == Len(yearly)
        D == SeqProduct([k \in 1..n |-> yearly[k].count])
        x == [k \in 1..n |-> yearly[k].year]
        Y == [k \in 1..n |-> yearly[k][name] * (D \div yearly[k].count)]
        Sx == SeqSum(x)
        Sy == SeqSum(Y)
        Sxy == SeqSum([k \in 1..n |-> x[k] * Y[k]])
        Sxx == SeqSum([k \in 1..n |-> x[k] * x[k]])
    IN  Rational(n * Sxy - Sx * Sy, 100 * D * (n * Sxx - Sx * Sx))

\* Trend without the guard on the number of years: the fit of one point has
\* no slope (0/0)
TrendAlwaysFit(yearly, name) == polyfit_slope(yearly, name)

\* lines 169-174
Trend(yearly, name) ==
    IF Len(yearly) > 1 THEN polyfit_slope(yearly, name) ELSE Zero

\* RiskAssessment with >= in place of >
RiskAssessmentInclusive(temp_trend) ==
    IF ~Less(temp_trend, Hundredths(2))
    THEN [risk_level |-> "HIGH", risk_color |-> "red",
          recommendation |-> "Urgent need for heat adaptation measures"]
    ELSE IF ~Less(temp_trend, Hundredths(1))
    THEN [risk_level |-> "MEDIUM", risk_color |-> "yellow",
          recommendation |-> "Monitor trends and plan adaptation"]
    ELSE [risk_level |-> "LOW", risk_color |-> "green",
          recommendation |-> "Maintain current climate resilience efforts"]

\* lines 177-188
RiskAssessment(temp_trend) ==
    IF Less(Hundredths(2), temp_trend)
    THEN [risk_level |-> "HIGH", risk_color |-> "red",
          recommendation |-> "Urgent need for heat adaptation measures"]
    ELSE IF Less(Hundredths(1), temp_trend)
    THEN [risk_level |-> "MEDIUM", risk_color |-> "yellow",
          recommendation |-> "Monitor trends and plan adaptation"]
    ELSE [risk_level |-> "LOW", risk_color |-> "green",
          recommendation |-> "Maintain current climate resilience efforts"]

\* lines 200-201: yearly_data.loc[yearly_data[name].idxmax(), "year"], the
\* first year whose yearly mean is the largest
YearOfMax(yearly, name) ==
    LET mean(k) == Rational(yearly[k][name], 100 * yearly[k].count)
        best == CHOOSE k \in 1..Len(yearly) :
                  /\ \A j \in 1..Len(yearly) : ~Less(mean(k), mean(j))
                  /\ \A j \in 1..(k - 1) : Less(mean(j), mean(k))
    IN  yearly[best].year

\* lines 158-202: the statistics of a frame with at least one row
Analyze(frame, county_name) ==
    LET rows == frame.rows
        yearly == yearly_data(rows)
        temp_trend == Trend(yearly, "temperature")
        rain_trend == Trend(yearly, "rainfall")
        risk == RiskAssessment(temp_trend)
    IN  [is_none |-> FALSE,
         county |-> county_name,
         avg_temperature |-> Mean(Column(rows, "temperature")),
         avg_rainfall |-> Mean(Column(rows, "rainfall")),
         avg_solar_radiation |-> Mean(Column(rows, "solar_radiation")),
         temperature_trend_per_decade |-> Times(10, temp_trend),
         rainfall_trend_per_decade |-> Times(10, rain_trend),
         risk_level |-> risk.risk_level,
         risk_color |-> risk.risk_color,
         recommendation |-> risk.recommendation,
         hottest_year |-> YearOfMax(yearly, "temperature"),
         wettest_year |-> YearOfMax(yearly, "rainfall")]

\* analyze_climate_data returning None for every frame of fewer than two rows
analyze_climate_data_short_guard(frame, county_name) ==
    IF frame.is_none \/ Len(frame.rows) < 2 THEN None
    ELSE Analyze(frame, county_name)

analyze_climate_data(frame, county_name) ==
    IF frame.is_none \/ frame.rows = <<>> THEN None
    ELSE Analyze(frame, county_name)

-----------------------------------------------------------------------------
(* API responses *)

NoDict == [k \in {} |-> 0]

EmptyBody ==
    [has_properties |-> FALSE, has_parameter |-> FALSE, has_T2M |-> FALSE,
     T2M |-> <<>>, PRECTOTCORR |-> NoDict, ALLSKY_SFC_SW_DWN |-> NoDict]

\* requests.get or raise_for_status raised
Failure(net) == [net |-> net, body |-> EmptyBody]

\* status 200 with a JSON body
Ok(body) == [net |-> "ok", body |-> body]

NoProperties == Ok(EmptyBody)

NoParameter == Ok([EmptyBody EXCEPT !.has_properties = TRUE])

NoT2M == Ok([EmptyBody EXCEPT !.has_properties = TRUE, !.has_parameter = TRUE])

\* properties.parameter with the T2M items in the order of the JSON object
Parameters(t2m, prec, solar) ==
    Ok([has_properties |-> TRUE, has_parameter |-> TRUE, has_T2M |-> TRUE,
        T2M |-> t2m, PRECTOTCORR |-> prec, ALLSKY_SFC_SW_DWN |-> solar])

\* The date-keys of the model: three months of 2000-2001, the API's annual
\* key (month 13), a key of seven characters, a key with a non-digit and a
\* key of four characters
KeyPool ==
    << <<"2", "0", "0", "0", "0", "1">>,
       <<"2", "0", "0", "0", "0", "2">>,
       <<"2", "0", "0", "1", "0", "1">>,
       <<"2", "0", "0", "0", "1", "3">>,
       <<"2", "0", "0", "0", "0", "1", "1">>,
       <<"2", "0", "x", "0", "0", "1">>,
       <<"2", "0", "0", "0">> >>

Keys == {KeyPool[i] : i \in 1..Len(KeyPool)}

IndexOf(key) == CHOOSE i \in 1..Len(KeyPool) : KeyPool[i] = key

\* the values the model's responses carry: one per variable and date-key
T2MValue(key) == 2000 + IndexOf(key)
PRECTOTCORRValue(key) == 100 + IndexOf(key)
ALLSKYValue(key) == 10 + IndexOf(key)

Range(s) == {s[i] : i \in 1..Len(s)}

\* the orderings of at most MaxKeys distinct date-keys
KeyOrders ==
    {s \in UNION {[1..n -> Keys] : n \in 0..MaxKeys} :
        \A i, j \in 1..Len(s) : i # j => s[i] # s[j]}

T2MOf(order) == [i \in 1..Len(order) |-> <<order[i], T2MValue(order[i])>>]

FailureResponses ==
    {Failure("timeout"), Failure("connection_error"), Failure("http_error"),
     NoProperties, NoParameter, NoT2M}

\* the response with the T2M items in the given order and the companion
\* mappings holding the date-keys P and S
ParameterResponse(order, P, S) ==
    Parameters(T2MOf(order),
               [k \in P |-> PRECTOTCORRValue(k)],
               [k \in S |-> ALLSKYValue(k)])

-----------------------------------------------------------------------------
(* The state of the application before the button is pressed *)

NoEntry == [present |-> FALSE, value |-> None, messages |-> <<>>, stored_at |-> 0]

Unset == [is_none |-> TRUE, unset |-> TRUE]

Pending == [kind |-> "pending", exc |-> "", value |-> None, messages |-> <<>>]

AppInit ==
    /\ now = 0
    /\ cache = [k \in CacheKeys |-> NoEntry]
    /\ requests = [k \in CacheKeys |-> 0]
    /\ pc = "idle"
    /\ county1 = "Nairobi"       \* index=29
    /\ county2 = "Baringo"       \* index=0
    /\ data1 = Unset
    /\ data2 = Unset
    /\ analysis1 = Unset
    /\ analysis2 = Unset
    /\ screen = <<>>
    /\ report = None

-----------------------------------------------------------------------------
(* SpecFetch: one call of the body of fetch_nasa_data on every response *)

InitFetch ==
    /\ AppInit
    /\ \/ api_response \in FailureResponses
       \/ \E order \in KeyOrders :
            \E P \in SUBSET Range(order), S \in SUBSET Range(order) :
               api_response = ParameterResponse(order, P, S)
    /\ fetched = Pending
    /\ df = None
    /\ analysis = Unset

FetchCall ==
    /\ fetched = Pending
    /\ fetched' = fetch_nasa_data(api_response, county1)
    /\ UNCHANGED <<appVars, api_response, df, analysis>>

NextFetch == FetchCall

SpecFetch == InitFetch /\ [][NextFetch]_vars

-----------------------------------------------------------------------------
(* SpecAnalyze: one call of analyze_climate_data on every frame *)

\* month slots YYYYMM of the frames, and the values a row may carry
Slots == {200001, 200002, 200101, 200102, 200201, 200202}
TempValues == {2000, 2001, 2002, 2003}
RainValues == {50, 60}

SlotRow(slot, temp, rain, county_name) ==
    [date |-> <<slot \div 100, slot % 100>>, temperature |-> temp,
     rainfall |-> rain, solar_radiation |-> 1500, county |-> county_name,
     year |-> slot \div 100, month |-> slot % 100]

\* the frame with one row per month slot of S, in ascending date order
SlotFrame(S, t, r, county_name) ==
    LET order == SortedSeq(S)
    IN  DataFrame([i \in 1..Len(order) |->
                     SlotRow(order[i], t[order[i]], r[order[i]], county_name)])

InitAnalyze ==
    /\ AppInit
    /\ api_response = NoProperties
    /\ fetched = Pending
    /\ \/ df = None
       \/ \E S \in SUBSET Slots :
            /\ Cardinality(S) <= MaxSamples
            /\ \E t \in [S -> TempValues], r \in [S -> RainValues] :
                 df = SlotFrame(S, t, r, county1)
    /\ analysis = Unset

AnalyzeCall ==
    /\ analysis = Unset
    /\ analysis' = analyze_climate_data(df, county1)
    /\ UNCHANGED <<appVars, api_response, fetched, df>>

NextAnalyze == AnalyzeCall

SpecAnalyze == InitAnalyze /\ [][NextAnalyze]_vars

-----------------------------------------------------------------------------
(* Spec: the application.  A press of "Analyze Climate Data" runs the main  *)
(* script: two calls of the cached fetch_nasa_data, then lines 265-394.     *)

\* the responses the API gives in Spec: the three request failures, bodies
\* without "properties", "parameter" or "T2M", an empty T2M mapping, a T2M
\* mapping of the annual key alone, two complete months of one year, two
\* complete months of two years, and the same with one rainfall value missing
AppResponses ==
    FailureResponses \cup
    {ParameterResponse(<<>>, {}, {}),
     ParameterResponse(<<KeyPool[4]>>, {KeyPool[4]}, {KeyPool[4]}),
     ParameterResponse(<<KeyPool[1], KeyPool[2]>>,
                       {KeyPool[1], KeyPool[2]}, {KeyPool[1], KeyPool[2]}),
     ParameterResponse(<<KeyPool[1], KeyPool[3]>>,
                       {KeyPool[1], KeyPool[3]}, {KeyPool[1], KeyPool[3]}),
     ParameterResponse(<<KeyPool[1], KeyPool[3]>>,
                       {KeyPool[1]}, {KeyPool[1], KeyPool[3]})}

\* seconds a request takes: a timeout is raised after RequestTimeout
Elapsed(response) == IF response.net = "timeout" THEN RequestTimeout ELSE 0

\* an entry is served until it is TTL seconds old
FreshInclusive(entry, t) == entry.present /\ t - entry.stored_at <= TTL

\* st.cache_data(ttl=3600): an entry is served while it is younger than TTL
Fresh(entry, t) == entry.present /\ t - entry.stored_at < TTL

\* a cache that keeps no None result
StoreSkippingNone(value, messages, t) ==
    IF value.is_none THEN NoEntry
    ELSE [present |-> TRUE, value |-> value, messages |-> messages, stored_at |-> t]

\* st.cache_data: the returned value, whatever it is, is stored with the
\* elements the call showed
Store(value, messages, t) ==
    [present |-> TRUE, value |-> value, messages |-> messages, stored_at |-> t]

TotalRequests == SeqSum([i \in 1..2 |-> requests[CallArgs(IF i = 1 THEN "Nairobi" ELSE "Baringo")]])

ClearedRun ==
    /\ data1' = Unset
    /\ data2' = Unset
    /\ analysis1' = Unset
    /\ analysis2' = Unset
    /\ screen' = <<>>
    /\ report' = None

pureVars == <<api_response, fetched, df, analysis>>

\* lines 239-249: a selectbox changes; the script reruns without the button
\* and shows the welcome page
Select(which, c) ==
    /\ pc = "idle"
    /\ IF which = 1 THEN county1 # c /\ county1' = c /\ UNCHANGED county2
                    ELSE county2 # c /\ county2' = c /\ UNCHANGED county1
    /\ ClearedRun
    /\ UNCHANGED <<now, cache, requests, pc, pureVars>>

\* line 258: the button is pressed and the script reruns
Click ==
    /\ pc = "idle"
    /\ TotalRequests + 2 <= MaxRequests
    /\ pc' = "fetch1"
    /\ ClearedRun
    /\ UNCHANGED <<now, cache, requests, county1, county2, pureVars>>

\* lines 77-78 and 262-263: one call fetch_nasa_data(lat, lon, county) through
\* the cache; data is the variable the result is assigned to.  A hit returns
\* the stored value and shows again the elements the stored call showed; a
\* miss runs the body on the API's response and stores what it returned.
CachedCall(county, data, next) ==
    LET key == CallArgs(county)
    IN  \/ /\ Fresh(cache[key], now)
           /\ data' = cache[key].value
           /\ screen' = screen \o cache[key].messages
           /\ pc' = next
           /\ UNCHANGED <<now, cache, requests>>
        \/ /\ ~Fresh(cache[key], now)
           /\ \E response \in AppResponses :
                LET r == fetch_nasa_data(response, county)
                    t == now + Elapsed(response)
                IN  /\ t <= MaxClock
                    /\ now' = t
                    /\ requests' = [requests EXCEPT ![key] = @ + 1]
                    /\ IF r.kind = "return"
                       THEN /\ cache' = [cache EXCEPT
                                           ![key] = Store(r.value, r.messages, t)]
                            /\ data' = r.value
                            /\ screen' = screen \o r.messages
                            /\ pc' = next
                       ELSE \* an exception leaves the call: nothing is
                            \* stored and the script run ends
                            /\ cache' = cache
                            /\ data' = Unset
                            /\ screen' = screen \o <<Message("exception", r.exc, county)>>
                            /\ pc' = "idle"

\* line 262
Fetch1 ==
    /\ pc = "fetch1"
    /\ CachedCall(county1, data1, "fetch2")
    /\ UNCHANGED <<county1, county2, data2, analysis1, analysis2, report, pureVars>>

\* line 263
Fetch2 ==
    /\ pc = "fetch2"
    /\ CachedCall(county2, data2, "render")
    /\ UNCHANGED <<county1, county2, data1, analysis1, analysis2, report, pureVars>>

FetchFailedMessage ==
    Message("error",
            "Failed to fetch climate data. Please check your internet connection.", "")

AnalyzeFailedMessage ==
    Message("error", "Could not analyze climate data. Please try again.", "")

\* a main script that analyses every county whose fetch returned a frame
RenderEachCounty ==
    /\ pc = "render"
    /\ analysis1' = IF data1.is_none THEN Unset
                    ELSE analyze_climate_data(data1, county1)
    /\ analysis2' = IF data2.is_none THEN Unset
                    ELSE analyze_climate_data(data2, county2)
    /\ IF ~data1.is_none /\ ~data2.is_none
       THEN /\ report' = [is_none |-> FALSE, first |-> analysis1', second |-> analysis2']
            /\ screen' = screen
       ELSE /\ report' = None
            /\ screen' = Append(screen, FetchFailedMessage)
    /\ pc' = "idle"
    /\ UNCHANGED <<now, cache, requests, county1, county2, data1, data2, pureVars>>

\* lines 265-394
Render ==
    /\ pc = "render"
    /\ IF ~data1.is_none /\ ~data2.is_none
       THEN LET a1 == analyze_climate_data(data1, county1)
                a2 == analyze_climate_data(data2, county2)
            IN  /\ analysis1' = a1
                /\ analysis2' = a2
                /\ IF ~a1.is_none /\ ~a2.is_none
                   THEN /\ report' = [is_none |-> FALSE, first |-> a1, second |-> a2]
                        /\ screen' = screen
                   ELSE /\ report' = None
                        /\ screen' = Append(screen, AnalyzeFailedMessage)
       ELSE /\ screen' = Append(screen, FetchFailedMessage)
            /\ UNCHANGED <<analysis1, analysis2, report>>
    /\ pc' = "idle"
    /\ UNCHANGED <<now, cache, requests, county1, county2, data1, data2, pureVars>>

\* time passes between script runs
Tick(d) ==
    /\ pc = "idle"
    /\ now + d <= MaxClock
    /\ now' = now + d
    /\ UNCHANGED <<cache, requests, pc, county1, county2, data1, data2,
                   analysis1, analysis2, screen, report, pureVars>>

Init ==
    /\ AppInit
    /\ api_response = NoProperties
    /\ fetched = Pending
    /\ df = None
    /\ analysis = Unset

Next ==
    \/ \E which \in {1, 2}, c \in CountyNames : Select(which, c)
    \/ Click
    \/ Fetch1
    \/ Fetch2
    \/ Render
    \/ \E d \in {TTL - RequestTimeout, TTL} : Tick(d)

Spec == Init /\ [][Next]_vars

-----------------------------------------------------------------------------
(* Claims about fetch_nasa_data, under SpecFetch *)

T2MKeys(response) == [i \in 1..Len(response.body.T2M) |-> response.body.T2M[i][1]]

HasParameters(response) ==
    response.net = "ok" /\ response.body.has_properties
      /\ response.body.has_parameter /\ response.body.has_T2M

Complete(response, key) ==
    /\ key \in DOMAIN response.body.PRECTOTCORR
    /\ key \in DOMAIN response.body.ALLSKY_SFC_SW_DWN

\* the row the spec expects for a complete date-key
ExpectedRow(response, key, county_name) ==
    LET d == ParseDateKey(key)
    IN  [date |-> <<d.year, d.month>>, temperature |-> T2MValue(key),
         rainfall |-> response.body.PRECTOTCORR[key],
         solar_radiation |-> response.body.ALLSKY_SFC_SW_DWN[key],
         county |-> county_name, year |-> d.year, month |-> d.month]

\* N >= 2 date-keys that all parse, exactly one of them without one of its
\* companion values
OneKeyIncomplete(response) ==
    /\ HasParameters(response)
    /\ Len(response.body.T2M) >= 2
    /\ \A i \in 1..Len(response.body.T2M) :
          ~ParseDateKey(T2MKeys(response)[i]).raises
    /\ Cardinality({i \in 1..Len(response.body.T2M) :
                      ~Complete(response, T2MKeys(response)[i])}) = 1

\* C1: when exactly one of N valid date-keys lacks a companion value, the
\* fetch returns the N-1 complete samples, each with the values of its own
\* date-key
C1_IncompleteKeySkipped ==
    (fetched # Pending /\ OneKeyIncomplete(api_response)) =>
        LET complete == SelectSeq(T2MKeys(api_response),
                                  LAMBDA k : Complete(api_response, k))
        IN  /\ fetched.kind = "return"
            /\ fetched.value =
                 DataFrame([i \in 1..Len(complete) |->
                              ExpectedRow(api_response, complete[i], county1)])

DateLess(a, b) == a[1] < b[1] \/ (a[1] = b[1] /\ a[2] < b[2])

\* C8: every returned series is in strictly ascending date order, hence
\* without a repeated (year, month)
C8_SeriesSortedNoDuplicates ==
    (fetched # Pending /\ fetched.kind = "return" /\ ~fetched.value.is_none) =>
        \A i \in 1..(Len(fetched.value.rows) - 1) :
            DateLess(fetched.value.rows[i].date, fetched.value.rows[i + 1].date)

-----------------------------------------------------------------------------
(* Claims about analyze_climate_data, under SpecAnalyze *)

Analyzed == analysis # Unset /\ ~analysis.is_none

TemperatureSlope == Trend(yearly_data(df.rows), "temperature")

\* C5: the risk level is HIGH iff slope > 0.02, MEDIUM iff 0.01 < slope <=
\* 0.02 and LOW iff slope <= 0.01, with the matching recommendation, and
\* temperature_trend_per_decade is 10 times the slope
C5_RiskStepFunctionOfSlope ==
    Analyzed =>
        LET slope == TemperatureSlope
            high == 50 * slope.num > slope.den
            medium == 100 * slope.num > slope.den /\ 50 * slope.num <= slope.den
            low == 100 * slope.num <= slope.den
            decade == analysis.temperature_trend_per_decade
        IN  /\ slope.den > 0
            /\ analysis.risk_level = "HIGH" <=> high
            /\ analysis.risk_level = "MEDIUM" <=> medium
            /\ analysis.risk_level = "LOW" <=> low
            /\ high => analysis.recommendation =
                          "Urgent need for heat adaptation measures"
            /\ medium => analysis.recommendation =
                          "Monitor trends and plan adaptation"
            /\ low => analysis.recommendation =
                          "Maintain current climate resilience efforts"
            /\ decade.den > 0
            /\ decade.num * slope.den = 10 * slope.num * decade.den

\* a slope of exactly 0.02 was classified MEDIUM
C5_Witness ==
    /\ Analyzed
    /\ 50 * TemperatureSlope.num = TemperatureSlope.den
    /\ analysis.risk_level = "MEDIUM"

AnalysisFields ==
    {"avg_temperature", "avg_rainfall", "avg_solar_radiation",
     "temperature_trend_per_decade", "rainfall_trend_per_decade",
     "risk_level", "recommendation", "hottest_year", "wettest_year"}

\* C6: the result is None exactly when the frame is None or has no rows;
\* otherwise it holds every field of the analysis
C6_AbsentIffEmpty ==
    analysis # Unset =>
        /\ (analysis = None) <=> (df.is_none \/ df.rows = <<>>)
        /\ analysis # None => AnalysisFields \subseteq DOMAIN analysis

\* a frame of exactly one row was analysed
C6_Witness ==
    /\ Analyzed
    /\ Len(df.rows) = 1
    /\ analysis.hottest_year = df.rows[1].year

SingleYear ==
    ~df.is_none /\ df.rows # <<>>
      /\ \A i \in 1..Len(df.rows) : df.rows[i].year = df.rows[1].year

ExactlyZero(q) == q.num = 0 /\ q.den > 0

\* C7: for a frame whose rows all fall in one calendar year both trends are
\* exactly 0 and the risk level is LOW
C7_SingleYearZeroTrend ==
    (Analyzed /\ SingleYear) =>
        /\ ExactlyZero(analysis.temperature_trend_per_decade)
        /\ ExactlyZero(analysis.rainfall_trend_per_decade)
        /\ analysis.risk_level = "LOW"

\* two months of one year with different temperatures and rainfall
C7_Witness ==
    /\ Analyzed
    /\ SingleYear
    /\ Len(df.rows) = 2
    /\ df.rows[1].temperature < df.rows[2].temperature
    /\ df.rows[1].rainfall # df.rows[2].rainfall

-----------------------------------------------------------------------------
(* Claims about the application, under Spec *)

HasMessage(text) == \E i \in 1..Len(screen) : screen[i].text = text

\* the script run started by the last press has ended
RunDone == pc = "idle" /\ data1 # Unset

\* C2: a call that finds an entry younger than TTL issues no request and
\* returns the cached value; any other call issues exactly one request and
\* its result becomes the entry, stamped with the time of the store
C2_CacheWithinTTL ==
    [][/\ pc = "fetch1" =>
            LET k == CallArgs(county1)
            IN  IF cache[k].present /\ now - cache[k].stored_at < TTL
                THEN /\ requests' = requests
                     /\ cache' = cache
                     /\ data1' = cache[k].value
                ELSE /\ requests' = [requests EXCEPT ![k] = @ + 1]
                     /\ cache'[k].present
                     /\ cache'[k].value = data1'
                     /\ cache'[k].stored_at = now'
       /\ pc = "fetch2" =>
            LET k == CallArgs(county2)
            IN  IF cache[k].present /\ now - cache[k].stored_at < TTL
                THEN /\ requests' = requests
                     /\ cache' = cache
                     /\ data2' = cache[k].value
                ELSE /\ requests' = [requests EXCEPT ![k] = @ + 1]
                     /\ cache'[k].present
                     /\ cache'[k].value = data2'
                     /\ cache'[k].stored_at = now'
      ]_vars

\* one county selected twice: its entry was refetched at the first call of a
\* run started when the entry was exactly TTL old, and the second call of
\* that run was served from the cache
C2_Witness ==
    /\ pc = "render"
    /\ county1 = county2
    /\ requests[CallArgs(county1)] = 2
    /\ cache[CallArgs(county1)].stored_at = TTL
    /\ ~data1.is_none
    /\ data2 = data1

\* every fetch of the run that did not return a frame got a response of
\* status 200 with the full schema and found no valid sample in it
OnlyEmptyResults ==
    /\ HasMessage("No valid data found for")
    /\ ~HasMessage("Network error fetching data for")
    /\ ~HasMessage("No climate data available for")
    /\ ~HasMessage("Unexpected error for")

\* C3: a run whose only fetch failures are empty results (the HTTP call
\* succeeded, zero valid samples) does not show the network-failure message
C3_EmptyResultNotNetworkFailure ==
    (RunDone /\ OnlyEmptyResults) =>
        ~HasMessage("Failed to fetch climate data. Please check your internet connection.")

\* C4 as claimed: after a run, every county whose fetch returned a frame has
\* been analysed
C4_OtherRegionStillAnalysed ==
    RunDone =>
        /\ ~data1.is_none => analysis1 # Unset
        /\ ~data2.is_none => analysis2 # Unset

\* C4 as amended: both fetches are made whatever the first returns; the
\* counties are analysed exactly when both fetches returned a frame; the
\* comparison output is there exactly when both analyses are
C4_AnalysisNeedsBothSeries ==
    RunDone =>
        /\ data2 # Unset
        /\ analysis1 # Unset <=> (~data1.is_none /\ ~data2.is_none)
        /\ analysis2 # Unset <=> (~data1.is_none /\ ~data2.is_none)
        /\ ~report.is_none <=> (~analysis1.is_none /\ ~analysis2.is_none)
        /\ ~report.is_none => report.first = analysis1 /\ report.second = analysis2

\* the first fetch failed, the second returned a frame, nothing was analysed
C4_Witness ==
    /\ RunDone
    /\ data1 = None
    /\ ~data2.is_none
    /\ analysis1 = Unset
    /\ analysis2 = Unset
    /\ report = None

\* C9: every call ends with a frame of at least one row or None and the
\* script goes on to its next line; a miss issues one request, a hit none,
\* and at most RequestTimeout seconds pass; the run then ends ready for the
\* next press
C9_FetchTerminatesWithoutException ==
    [][/\ pc = "fetch1" =>
            /\ pc' = "fetch2"
            /\ data1' = None \/ (~data1'.is_none /\ data1'.rows # <<>>)
       /\ pc = "fetch2" =>
            /\ pc' = "render"
            /\ data2' = None \/ (~data2'.is_none /\ data2'.rows # <<>>)
       /\ pc \in {"fetch1", "fetch2"} =>
            LET k == CallArgs(IF pc = "fetch1" THEN county1 ELSE county2)
                miss == ~cache[k].present \/ now - cache[k].stored_at >= TTL
            IN  /\ now' - now \in 0..RequestTimeout
                /\ requests' = [requests EXCEPT ![k] = IF miss THEN @ + 1 ELSE @]
       /\ pc = "render" => pc' = "idle"
      ]_vars

\* a new run has been started after a run whose fetch ended in the
\* unexpected-error clause and one that timed out
C9_Witness ==
    /\ pc = "fetch1"
    /\ now >= RequestTimeout
    /\ \E k \in CacheKeys :
          /\ cache[k].present
          /\ cache[k].value = None
          /\ cache[k].messages[1].text = "Unexpected error for"

\* C10: a call that returned None on a miss leaves None as the entry, and a
\* call that finds a None entry younger than TTL returns None without a
\* request
C10_FailureMemoized ==
    [][/\ pc = "fetch1" =>
            LET k == CallArgs(county1)
                fresh == cache[k].present /\ now - cache[k].stored_at < TTL
            IN  /\ (fresh /\ cache[k].value = None) =>
                      data1' = None /\ requests' = requests /\ cache' = cache
                /\ (~fresh /\ data1' = None) =>
                      /\ cache'[k].present
                      /\ cache'[k].value = None
                      /\ cache'[k].stored_at = now'
       /\ pc = "fetch2" =>
            LET k == CallArgs(county2)
                fresh == cache[k].present /\ now - cache[k].stored_at < TTL
            IN  /\ (fresh /\ cache[k].value = None) =>
                      data2' = None /\ requests' = requests /\ cache' = cache
                /\ (~fresh /\ data2' = None) =>
                      /\ cache'[k].present
                      /\ cache'[k].value = None
                      /\ cache'[k].stored_at = now'
      ]_vars

\* one county selected twice: the first call failed after its one request,
\* the second returned the memoized None, TTL - RequestTimeout seconds later
\* a run did the same again without a request
C10_Witness ==
    /\ pc = "render"
    /\ county1 = county2
    /\ data1 = None
    /\ data2 = None
    /\ TotalRequests = 1
    /\ now - cache[CallArgs(county1)].stored_at = TTL - RequestTimeout

=============================================================================
